---- MODULE Spec2Model ----
(***************************************************************************)
(* A model of the safe-fork crate (src/src/lib.rs): the single-thread      *)
(* guard, fork, fork_spawn, fork_join and Child::join, together with the   *)
(* part of the operating system they talk to: a process table with PIDs    *)
(* that are recycled once reaped, unshare(CLONE_VM), fork(2), waitpid(2)   *)
(* and exit(3).                                                            *)
(*                                                                         *)
(* Every process has one thread that runs the caller's code and calls the  *)
(* API (pc), plus a count of live threads, which changes between two API   *)
(* calls of the process.  A fork copies the memory of the caller, so the   *)
(* Child values the caller owns exist in the new process as well.  A unit  *)
(* of work ends by returning a value, by a fatal signal, or by a panic     *)
(* that unwinds into the caller's frames; it may also never end.           *)
(***************************************************************************)
EXTENDS Integers, Sequences, FiniteSets, TLC

\* ------------------------------------------------------------------ bounds
MaxPid == 3          \* size of the PID space (process-table slots)
MaxForks == 2        \* successful fork(2) calls in one behaviour
MaxThreads == 2      \* live threads of one process

Pids == 1..MaxPid
Gens == 1..MaxForks

\* The process the behaviour starts in (tests/single_threaded.rs: main).
InitPid == CHOOSE p \in Pids : \A q \in Pids : p <= q

\* Values a unit of work `f: impl FnOnce() -> i32` returns.
WorkValues == {0, 42, 255, 256, -1}
\* Signals that end a child: SIGABRT (abort), SIGKILL.
Signals == {6, 9}
\* Whether the kernel wrote a core file: possible for SIGABRT, never for SIGKILL.
CoreDumps(s) == IF s = 6 THEN BOOLEAN ELSE {FALSE}

\* ------------------------------------------------------------- OS encoding
\* Raw wait status of a process that called exit(c): low 8 bits of c, shifted.
ExitWord(c) == (c % 256) * 256
\* Raw wait status of a process killed by signal s (bit 7: core dumped).
SignalWord(s, core) == s + (IF core THEN 128 ELSE 0)
\* Raw wait status of a process stopped (not ended) by signal s.
StopWord(s) == s * 256 + 127

WIFEXITED(st) == st % 128 = 0
WEXITSTATUS(st) == (st \div 256) % 256
WIFSIGNALED(st) == (st % 128) \notin {0, 127}
WTERMSIG(st) == st % 128

\* ExitStatus::from_raw, ExitStatus::code, ExitStatusExt::signal.
\* Option<T> is the set of at most one T.
from_raw(st) == st
code(exit) == IF WIFEXITED(exit) THEN {WEXITSTATUS(exit)} ELSE {}
signal(exit) == IF WIFSIGNALED(exit) THEN {WTERMSIG(exit)} ELSE {}

\* ------------------------------------------------------------------ values
\* struct Child { pid }.  gen is a history field: the index of the fork that
\* created the process the handle was made for.
ChildOf(pid, gen) == [pid |-> pid, gen |-> gen]

\* Result values of the API.  kind: "None" nothing returned yet, "Ok", "Err",
\* "Bool" (is_single_threaded), "Unwound" (a panic passed through the call).
Res(op, kind, err, val, child, b) ==
    [op |-> op, kind |-> kind, err |-> err, val |-> val, child |-> child, b |-> b]
NoRes == Res("", "None", "", {}, {}, FALSE)
Err(op, errno) == Res(op, "Err", errno, {}, {}, FALSE)
OkUnit(op) == Res(op, "Ok", "", {}, {}, FALSE)
OkVal(op, v) == Res(op, "Ok", "", {v}, {}, FALSE)
OkNone(op) == Res(op, "Ok", "", {}, {}, FALSE)
OkSome(op, c) == Res(op, "Ok", "", {}, {c}, FALSE)
Bool(op, b) == Res(op, "Bool", "", {}, {}, b)

\* One system call as issued by an API call: its name and its return value.
Sys(call, r) == [call |-> call, r |-> r]

VARIABLES
    ptab,      \* OS process table: PID -> [st, ppid, gen, status, end]
    threads,   \* PID -> number of live threads of the process
    pc,        \* PID -> where the process's calling thread is
    handles,   \* PID -> the Child values the caller's code owns
    call,      \* PID -> the API call in progress: [op, h, sys] (h: the Child
               \*        join consumed, sys: the system calls issued so far)
    nforks,    \* history: number of successful fork(2) calls
    waits,     \* history: handle gen -> the processes (gens) that waited on it
    rewait,    \* history: some process waited twice on one handle
    joined,    \* history: handle gens on which some join returned Ok
    last       \* the step just taken and what it returned to its caller

vars == <<ptab, threads, pc, handles, call, nforks, waits, rewait, joined,
          last>>

\* How a process came to its end, kept with its process-table entry: "" it
\* has not ended, "returned" its unit of work returned v, "killed" signal v
\* ended it, "panicked" a panic of the unit of work did, "exited" its own
\* code called exit.
NoEnd == [how |-> "", v |-> 0]
End(how, v) == [how |-> how, v |-> v]
FreeSlot == [st |-> "free", ppid |-> 0, gen |-> 0, status |-> 0, end |-> NoEnd]
NoCall == [op |-> "", h |-> {}, sys |-> <<>>]
InCall(op, h, s) == [op |-> op, h |-> h, sys |-> s]
\* The step just taken.  p: the process, op: the API call the step belongs to
\* ("" for a step of the program around the API), threads: p's live threads
\* when it took the step, res: what the call returned to its caller in p
\* (NoRes: nothing, or not yet), resc: what it returned in the process it
\* created, sys: the system calls the call has issued so far, h: the Child
\* join consumed, made: the fork (gen) whose process the step created.
\* For the return of a waitpid also: reaped: the fork whose process it
\* reaped, kid: what the PID waited on was to p just before ("none": no child
\* of p, "run", "zombie"), end: how that child had ended.
NoStep ==
    [p |-> 0, op |-> "", threads |-> 0, res |-> NoRes, resc |-> NoRes,
     sys |-> <<>>, h |-> {}, made |-> {}, reaped |-> {}, kid |-> "",
     end |-> NoEnd]
CallStep(p, op, th, res, resc, s, h, made) ==
    [NoStep EXCEPT !.p = p, !.op = op, !.threads = th, !.res = res,
                   !.resc = resc, !.sys = s, !.h = h, !.made = made]
WaitStep(p, op, th, res, s, h, reaped, kid, end) ==
    [NoStep EXCEPT !.p = p, !.op = op, !.threads = th, !.res = res,
                   !.sys = s, !.h = h, !.reaped = reaped, !.kid = kid,
                   !.end = end]

Running(p) == ptab[p].st = "run"
Idle(p) == Running(p) /\ pc[p] = "idle"
FreePids == {q \in Pids : ptab[q].st = "free"}
\* waitpid(pid) of process p finds a child: a process-table entry of p's.
IsChild(p, pid) == pid \in Pids /\ ptab[pid].st # "free" /\ ptab[pid].ppid = p

Init ==
    /\ ptab = [p \in Pids |-> IF p = InitPid
                 THEN [st |-> "run", ppid |-> 0, gen |-> 0, status |-> 0,
                       end |-> NoEnd]
                 ELSE FreeSlot]
    /\ threads = [p \in Pids |-> IF p = InitPid THEN 1 ELSE 0]
    /\ pc = [p \in Pids |-> IF p = InitPid THEN "idle" ELSE "dead"]
    /\ handles = [p \in Pids |-> {}]
    /\ call = [p \in Pids |-> NoCall]
    /\ nforks = 0
    /\ waits = [g \in Gens |-> {}]
    /\ rewait = FALSE
    /\ joined = {}
    /\ last = NoStep

\* ------------------------------------------------------------ the OS calls
\* A status kept from the start of the process, when it had one thread,
\* instead of a call of unshare.
unshare_memoized(p) == IF threads[p] >= 1 THEN 0 ELSE -1

\* unshare(CLONE_VM): 0 when the caller is the only thread of its thread
\* group, -1 (EINVAL) otherwise.
unshare(p) == IF threads[p] = 1 THEN 0 ELSE -1

\* fork(2): -1 (EAGAIN: no process-table slot, or any other failure), or the
\* PID of the new process, any free one.
ForkOutcomes == {-1} \cup (IF nforks < MaxForks THEN FreePids ELSE {})

\* ------------------------------------------------------------ lib.rs, pure
\* A guard that drops the result of unshare.
ensure_single_threaded_unchecked(op, u) == OkUnit(op)

\* ensure_single_threaded, given what unshare returned.
ensure_single_threaded(op, u) == IF u = 0 THEN OkUnit(op) ELSE Err(op, "EINVAL")

is_single_threaded(op, u) == Bool(op, ensure_single_threaded(op, u).kind = "Ok")

\* A fork that duplicates the process first and runs the guard afterwards.
fork_before_guard(op, u, r, g) ==
    LET guard == ensure_single_threaded(op, u) IN
    [res |-> IF guard.kind = "Err" THEN guard
             ELSE CASE r = -1 -> Err(op, "EAGAIN")
                    [] r = 0 -> OkNone(op)
                    [] OTHER -> OkSome(op, ChildOf(r, g)),
     sys |-> <<Sys("fork", r), Sys("unshare", u)>>,
     next |-> "return"]

\* A fork whose match has no `-1` arm: the failure becomes a Child.
fork_no_error_arm(op, u, r, g) ==
    LET guard == ensure_single_threaded(op, u) IN
    IF guard.kind = "Err"
    THEN [res |-> guard, sys |-> <<Sys("unshare", u)>>, next |-> "return"]
    ELSE [res |-> IF r = 0 THEN OkNone(op) ELSE OkSome(op, ChildOf(r, g)),
          sys |-> <<Sys("unshare", u), Sys("fork", r)>>,
          next |-> "return"]

\* A fork whose match has no `0` arm: the new process gets a Child as well.
fork_no_child_arm(op, u, r, g) ==
    LET guard == ensure_single_threaded(op, u) IN
    IF guard.kind = "Err"
    THEN [res |-> guard, sys |-> <<Sys("unshare", u)>>, next |-> "return"]
    ELSE [res |-> IF r = -1 THEN Err(op, "EAGAIN") ELSE OkSome(op, ChildOf(r, g)),
          sys |-> <<Sys("unshare", u), Sys("fork", r)>>,
          next |-> "return"]

\* fork, given what unshare returned (u) and what fork(2) returns in this
\* process (r: -1, 0 in the new process, its PID in the original one).  sys
\* lists the system calls issued, in order.
fork(op, u, r, g) ==
    LET guard == ensure_single_threaded(op, u) IN
    IF guard.kind = "Err"
    THEN [res |-> guard, sys |-> <<Sys("unshare", u)>>, next |-> "return"]
    ELSE [res |-> CASE r = -1 -> Err(op, "EAGAIN")
                    [] r = 0 -> OkNone(op)
                    [] OTHER -> OkSome(op, ChildOf(r, g)),
          sys |-> <<Sys("unshare", u), Sys("fork", r)>>,
          next |-> "return"]

\* A fork_spawn that runs the unit of work in both arms of the match.
fork_spawn_both_arms(op, u, r, g) ==
    LET fk == fork(op, u, r, g) IN
    IF fk.res.kind = "Err" THEN fk
    ELSE [res |-> NoRes, sys |-> fk.sys, next |-> "work"]

\* fork_spawn up to the point where it returns or invokes the unit of work:
\* next = "work" is the arm `None => std::process::exit(f())`.
fork_spawn(op, u, r, g) ==
    LET fk == fork(op, u, r, g) IN
    IF fk.res.kind = "Err" THEN fk
    ELSE IF fk.res.child = {} THEN [res |-> NoRes, sys |-> fk.sys, next |-> "work"]
    ELSE fk

\* fork_join up to the waitpid of `fork_spawn(f)?.join()`: next = "join"
\* moves the Child in res.child into join.
fork_join_spawn(op, u, r, g) ==
    LET sp == fork_spawn(op, u, r, g) IN
    IF sp.next = "return" /\ sp.res.kind = "Ok"
    THEN [res |-> sp.res, sys |-> sp.sys, next |-> "join"]
    ELSE sp

\* A child arm that drops the value of the unit of work: exit(0).
spawn_child_exit_zero(op, c) == [next |-> "exit", code |-> 0, res |-> NoRes]

\* A child arm that does not exit: the value goes back to the caller.
spawn_child_returns(op, c) == [next |-> "return", code |-> c, res |-> OkVal(op, c)]

\* A child arm that clamps the value into 0..255 before it exits.
spawn_child_clamps(op, c) ==
    [next |-> "exit", code |-> IF c < 0 THEN 0 ELSE IF c > 255 THEN 255 ELSE c,
     res |-> NoRes]

\* The child arm once the unit of work returned c: std::process::exit(c).
spawn_child(op, c) == [next |-> "exit", code |-> c, res |-> NoRes]

\* A join that takes &self: the caller keeps h.
join_by_reference(hs, h) == hs

\* Child::join takes self by value: the caller no longer owns h.
join_consume(hs, h) == hs \ {h}

\* A join that polls instead of blocking.
join_options_nohang == {"WNOHANG"}

\* A join that also asks for children a signal has stopped.
join_options_untraced == {"WUNTRACED"}

\* The options argument of join's waitpid call (0: no flag).
join_options == {}

\* waitpid(pid, &status, options) called by p: what it can return now.  With
\* no WNOHANG it blocks (returns nothing) while the child runs, unless a
\* signal handler interrupts it (EINTR); with WUNTRACED it also reports a
\* child that SIGSTOP (19) has stopped.
WaitOutcomes(p, pid, options) ==
    IF ~IsChild(p, pid)
    THEN {[r |-> -1, errno |-> "ECHILD", status |-> 0]}
    ELSE IF ptab[pid].st = "zombie"
    THEN {[r |-> pid, errno |-> "", status |-> ptab[pid].status]}
    ELSE {[r |-> -1, errno |-> "EINTR", status |-> 0]}
         \cup (IF "WNOHANG" \in options
               THEN {[r |-> 0, errno |-> "", status |-> 0]} ELSE {})
         \cup (IF "WUNTRACED" \in options
               THEN {[r |-> pid, errno |-> "", status |-> StopWord(19)]} ELSE {})

\* A join that does not look at what waitpid returned.
join_unchecked(op, w) == OkVal(op, from_raw(w.status))

\* Child::join, given what waitpid returned.
join(op, w) ==
    IF w.r < 0 THEN Err(op, w.errno) ELSE OkVal(op, from_raw(w.status))

OrElse(a, b) == IF a # {} THEN a ELSE b
UnwrapOr(a, d) == IF a # {} THEN CHOOSE x \in a : TRUE ELSE d

\* A fork_join that maps every abnormal end to the fallback 1.
fork_join_no_signal(op, w) ==
    LET j == join(op, w) IN
    IF j.kind = "Err" THEN j
    ELSE LET exit == CHOOSE x \in j.val : TRUE IN
         OkVal(op, UnwrapOr(code(exit), 1))

\* fork_join from the return of waitpid on.
fork_join(op, w) ==
    LET j == join(op, w) IN
    IF j.kind = "Err" THEN j
    ELSE LET exit == CHOOSE x \in j.val : TRUE IN
         OkVal(op, UnwrapOr(OrElse(code(exit), {x + 128 : x \in signal(exit)}), 1))


\* ------------------------------------------------- effects on the process
\* PIDs of the processes fork(2) created among the system calls s.
Made(s) == {s[i].r : i \in {j \in DOMAIN s : s[j].call = "fork" /\ s[j].r > 0}}

\* Where a process is after the part `out` of a call, and what it then holds.
PcAfter(out) ==
    CASE out.next = "return" -> "idle"
      [] out.next = "work" -> "work"
      [] out.next = "join" -> "waitpid"
RetAfter(out) == IF out.next = "return" THEN out.res ELSE NoRes
\* A Child returned to the caller is owned by the caller's code.
HandlesAfter(hs, out) == IF out.next = "return" THEN hs \cup out.res.child ELSE hs
\* join issues waitpid at once: 0 stands for "has not returned yet".
SysAfter(out) ==
    IF out.next = "join" THEN out.sys \o <<Sys("waitpid", 0)>> ELSE out.sys
CallAfter(op, out) ==
    CASE out.next = "return" -> NoCall
      [] out.next = "work" -> InCall(op, {}, SysAfter(out))
      [] out.next = "join" -> InCall(op, out.res.child, SysAfter(out))
\* The process of fork w issues waitpid on each Child of hs.
WaitsAfter(ws, w, hs) ==
    [x \in DOMAIN ws |-> IF x \in {c.gen : c \in hs} THEN ws[x] \cup {w} ELSE ws[x]]
Rewaits(ws, w, hs) == \E c \in hs : w \in ws[c.gen]
Joining(out) == IF out.next = "join" THEN out.res.child ELSE {}

\* The process table once p has terminated with raw status st: p stays as a
\* zombie for its parent (init reaps it at once when it has none); p's own
\* zombies are reaped by init and its live children handed to init.
PtabAfterExit(p, st, end) ==
    [q \in Pids |->
        IF q = p
        THEN (IF ptab[p].ppid # 0
              THEN [ptab[p] EXCEPT !.st = "zombie", !.status = st, !.end = end]
              ELSE FreeSlot)
        ELSE IF ptab[q].ppid = p /\ ptab[q].st = "zombie" THEN FreeSlot
        ELSE IF ptab[q].ppid = p THEN [ptab[q] EXCEPT !.ppid = 0]
        ELSE ptab[q]]

\* Process p terminates: its memory (the handles it held) is gone.
Die(p, st, end) ==
    /\ ptab' = PtabAfterExit(p, st, end)
    /\ threads' = [threads EXCEPT ![p] = 0]
    /\ pc' = [pc EXCEPT ![p] = "dead"]
    /\ handles' = [handles EXCEPT ![p] = {}]
    /\ call' = [call EXCEPT ![p] = NoCall]

\* Process p calls `op`; fork(2), if issued, returns r in p.  out is the call
\* as it runs in p, outc as it runs on in the new process (fork(2) returned 0).
Duplicate(p, op, r, out, outc) ==
    LET g == nforks + 1
        made == Made(out.sys)
        pgen == ptab[p].gen
    IN
    /\ pc' = [q \in Pids |-> IF q = p THEN PcAfter(out)
                  ELSE IF q \in made THEN PcAfter(outc) ELSE pc[q]]
    /\ handles' = [q \in Pids |-> IF q = p THEN HandlesAfter(handles[p], out)
                  ELSE IF q \in made THEN HandlesAfter(handles[p], outc)
                  ELSE handles[q]]
    /\ call' = [q \in Pids |-> IF q = p THEN CallAfter(op, out)
                  ELSE IF q \in made THEN CallAfter(op, outc) ELSE call[q]]
    /\ ptab' = [q \in Pids |-> IF q \in made
                  THEN [st |-> "run", ppid |-> p, gen |-> g, status |-> 0,
                        end |-> NoEnd]
                  ELSE ptab[q]]
    /\ threads' = [q \in Pids |-> IF q \in made THEN 1 ELSE threads[q]]
    /\ nforks' = IF made # {} THEN g ELSE nforks
    /\ waits' = IF made # {}
                THEN WaitsAfter(WaitsAfter(waits, pgen, Joining(out)), g,
                                Joining(outc))
                ELSE WaitsAfter(waits, pgen, Joining(out))
    /\ UNCHANGED rewait
    /\ last' = CallStep(p, op, threads[p], RetAfter(out),
                        IF made # {} THEN RetAfter(outc) ELSE NoRes,
                        SysAfter(out), {}, IF made # {} THEN {g} ELSE {})
    /\ UNCHANGED joined

\* ----------------------------------------------------------------- actions
\* The thread-count actions of the embedding program.
SpawnThread(p) ==
    /\ Idle(p)
    /\ threads[p] < MaxThreads
    /\ threads' = [threads EXCEPT ![p] = @ + 1]
    /\ last' = NoStep
    /\ UNCHANGED <<ptab, pc, handles, call, nforks, waits, rewait, joined>>

ThreadExit(p) ==
    /\ Idle(p)
    /\ threads[p] > 1
    /\ threads' = [threads EXCEPT ![p] = @ - 1]
    /\ last' = NoStep
    /\ UNCHANGED <<ptab, pc, handles, call, nforks, waits, rewait, joined>>

\* pub fn ensure_single_threaded() / pub fn is_single_threaded()
EnsureSingleThreaded(p) ==
    /\ Idle(p)
    /\ last' = CallStep(p, "ensure_single_threaded", threads[p],
                    ensure_single_threaded("ensure_single_threaded", unshare(p)),
                    NoRes, <<Sys("unshare", unshare(p))>>, {}, {})
    /\ UNCHANGED <<ptab, threads, pc, handles, call, nforks, waits, rewait,
                   joined>>

\* An is_single_threaded that finds out by trying: fork().is_ok().
IsSingleThreaded_by_fork(p) ==
    /\ Idle(p)
    /\ \E r \in ForkOutcomes :
          Duplicate(p, "is_single_threaded", r,
                    fork("is_single_threaded", unshare(p), r, nforks + 1),
                    fork("is_single_threaded", unshare(p), 0, nforks + 1))

IsSingleThreaded(p) ==
    /\ Idle(p)
    /\ last' = CallStep(p, "is_single_threaded", threads[p],
                    is_single_threaded("is_single_threaded", unshare(p)),
                    NoRes, <<Sys("unshare", unshare(p))>>, {}, {})
    /\ UNCHANGED <<ptab, threads, pc, handles, call, nforks, waits, rewait,
                   joined>>

\* pub fn fork()
Fork(p) ==
    /\ Idle(p)
    /\ \E r \in ForkOutcomes :
          Duplicate(p, "fork", r,
                    fork("fork", unshare(p), r, nforks + 1),
                    fork("fork", unshare(p), 0, nforks + 1))

\* pub fn fork_spawn(f)
ForkSpawn(p) ==
    /\ Idle(p)
    /\ \E r \in ForkOutcomes :
          Duplicate(p, "fork_spawn", r,
                    fork_spawn("fork_spawn", unshare(p), r, nforks + 1),
                    fork_spawn("fork_spawn", unshare(p), 0, nforks + 1))

\* pub fn fork_join(f), up to the point where join's waitpid is issued
ForkJoin(p) ==
    /\ Idle(p)
    /\ \E r \in ForkOutcomes :
          Duplicate(p, "fork_join", r,
                    fork_join_spawn("fork_join", unshare(p), r, nforks + 1),
                    fork_join_spawn("fork_join", unshare(p), 0, nforks + 1))

\* Child::join(self), up to the point where waitpid is issued
Join(p) ==
    /\ Idle(p)
    /\ \E h \in handles[p] :
          /\ handles' = [handles EXCEPT ![p] = join_consume(@, h)]
          /\ call' = [call EXCEPT ![p] =
                         InCall("join", {h}, <<Sys("waitpid", 0)>>)]
          /\ waits' = WaitsAfter(waits, ptab[p].gen, {h})
          /\ rewait' = (rewait \/ Rewaits(waits, ptab[p].gen, {h}))
          /\ last' = CallStep(p, "join", threads[p], NoRes, NoRes,
                              <<Sys("waitpid", 0)>>, {h}, {})
    /\ pc' = [pc EXCEPT ![p] = "waitpid"]
    /\ UNCHANGED <<ptab, threads, nforks, joined>>

\* waitpid returns in p: the rest of Child::join, and of fork_join
WaitReturn(p) ==
    /\ Running(p)
    /\ pc[p] = "waitpid"
    /\ \E h \in call[p].h : \E w \in WaitOutcomes(p, h.pid, join_options) :
          LET res == IF call[p].op = "join" THEN join("join", w)
                     ELSE fork_join(call[p].op, w)
              reaped == IF w.r > 0 THEN {ptab[w.r].gen} ELSE {}
          IN
          /\ ptab' = IF w.r > 0 /\ ptab[w.r].st = "zombie"
                     THEN [ptab EXCEPT ![w.r] = FreeSlot] ELSE ptab
          /\ joined' = IF res.kind = "Ok" THEN joined \cup {h.gen} ELSE joined
          /\ last' = WaitStep(p, call[p].op, threads[p], res,
                              [call[p].sys EXCEPT ![Len(call[p].sys)] =
                                  Sys("waitpid", w.r)],
                              {h}, reaped,
                              IF IsChild(p, h.pid) THEN ptab[h.pid].st ELSE "none",
                              IF IsChild(p, h.pid) THEN ptab[h.pid].end ELSE NoEnd)
    /\ pc' = [pc EXCEPT ![p] = "idle"]
    /\ call' = [call EXCEPT ![p] = NoCall]
    /\ UNCHANGED <<threads, handles, nforks, waits, rewait>>

\* A Child with a Drop impl that reaps the child if it has terminated.
DropChild_reaps(p) ==
    /\ Idle(p)
    /\ \E h \in handles[p] :
          /\ handles' = [handles EXCEPT ![p] = @ \ {h}]
          /\ ptab' = IF IsChild(p, h.pid) /\ ptab[h.pid].st = "zombie"
                     THEN [ptab EXCEPT ![h.pid] = FreeSlot] ELSE ptab
          /\ last' = NoStep
    /\ UNCHANGED <<threads, pc, call, nforks, waits, rewait, joined>>

\* The caller drops a Child without joining it (Child has no Drop impl).
DropChild(p) ==
    /\ Idle(p)
    /\ \E h \in handles[p] :
          /\ handles' = [handles EXCEPT ![p] = @ \ {h}]
          /\ last' = NoStep
    /\ UNCHANGED <<ptab, threads, pc, call, nforks, waits, rewait, joined>>

\* In the new process the unit of work returns c: std::process::exit(f()).
WorkReturns(p) ==
    /\ Running(p)
    /\ pc[p] = "work"
    /\ \E c \in WorkValues :
          LET out == spawn_child(call[p].op, c) IN
          /\ IF out.next = "exit"
             THEN Die(p, ExitWord(out.code), End("returned", c))
             ELSE /\ pc' = [pc EXCEPT ![p] = "idle"]
                  /\ call' = [call EXCEPT ![p] = NoCall]
                  /\ UNCHANGED <<ptab, threads, handles>>
          /\ last' = [CallStep(p, "work_returns", threads[p], out.res, NoRes,
                                   call[p].sys, {}, {})
                          EXCEPT !.end = End("returned", c)]
    /\ UNCHANGED <<nforks, waits, rewait, joined>>

\* The unit of work ends in a fatal signal (abort, kill) before it returns.
WorkKilled(p) ==
    /\ Running(p)
    /\ pc[p] = "work"
    /\ \E s \in Signals : \E core \in CoreDumps(s) :
          Die(p, SignalWord(s, core), End("killed", s))
    /\ last' = NoStep
    /\ UNCHANGED <<nforks, waits, rewait, joined>>

\* The unit of work panics: exit is not reached, the panic unwinds out of
\* fork_spawn (and fork_join) into the frames of the caller, in the child.
WorkPanics(p) ==
    /\ Running(p)
    /\ pc[p] = "work"
    /\ pc' = [pc EXCEPT ![p] = "unwind"]
    /\ ptab' = [ptab EXCEPT ![p].end = End("panicked", 0)]
    /\ last' = NoStep
    /\ UNCHANGED <<threads, handles, call, nforks, waits, rewait, joined>>

\* The caller's code catches the panic (catch_unwind) and runs on.
PanicCaught(p) ==
    /\ Running(p)
    /\ pc[p] = "unwind"
    /\ pc' = [pc EXCEPT ![p] = "idle"]
    /\ call' = [call EXCEPT ![p] = NoCall]
    /\ last' = CallStep(p, "panic_caught", threads[p],
                        Res(call[p].op, "Unwound", "", {}, {}, FALSE), NoRes,
                        call[p].sys, {}, {})
    /\ UNCHANGED <<ptab, threads, handles, nforks, waits, rewait, joined>>

\* Nobody catches the panic: the runtime ends the process with status 101.
PanicExits(p) ==
    /\ Running(p)
    /\ pc[p] = "unwind"
    /\ Die(p, ExitWord(101), End("panicked", 0))
    /\ last' = NoStep
    /\ UNCHANGED <<nforks, waits, rewait, joined>>

\* The caller's code of a forked process (fork returned None there, or a
\* panic was caught) ends the process.
ProcExits(p) ==
    /\ Idle(p)
    /\ ptab[p].gen \in Gens
    /\ Die(p, ExitWord(0), IF ptab[p].end = NoEnd THEN End("exited", 0)
                            ELSE ptab[p].end)
    /\ last' = NoStep
    /\ UNCHANGED <<nforks, waits, rewait, joined>>

Next ==
    \E p \in Pids :
        \/ SpawnThread(p)
        \/ ThreadExit(p)
        \/ EnsureSingleThreaded(p)
        \/ IsSingleThreaded(p)
        \/ Fork(p)
        \/ ForkSpawn(p)
        \/ ForkJoin(p)
        \/ Join(p)
        \/ WaitReturn(p)
        \/ DropChild(p)
        \/ WorkReturns(p)
        \/ WorkKilled(p)
        \/ WorkPanics(p)
        \/ PanicCaught(p)
        \/ PanicExits(p)
        \/ ProcExits(p)

Spec == Init /\ [][Next]_vars

\* ------------------------------------------------------------------ claims
ForkOps == {"fork", "fork_spawn", "fork_join"}
\* The process fork g created, while it is in the process table.
ProcOf(g) == {q \in Pids : ptab[q].st # "free" /\ ptab[q].gen = g}

\* C1: a call made while the calling process has more than one live thread
\* fails: ensure_single_threaded returns Err, is_single_threaded false, and
\* fork, fork_spawn and fork_join Err; such a call creates no process, issues
\* neither fork(2) nor waitpid, runs no unit of work, and the caller runs on.
C1_MultiThreadedFails ==
    last.threads > 1 =>
        /\ last.op = "ensure_single_threaded" =>
              last.res = Err("ensure_single_threaded", "EINVAL")
        /\ last.op = "is_single_threaded" =>
              last.res = Bool("is_single_threaded", FALSE)
        /\ last.op \in ForkOps =>
              /\ last.res = Err(last.op, "EINVAL")
              /\ last.made = {} /\ last.resc = NoRes
              /\ last.sys = <<Sys("unshare", -1)>>
              /\ Idle(last.p)

C1_Witness ==
    /\ last.threads > 1 /\ last.op = "fork_join"
    /\ last.res = Err("fork_join", "EINVAL")

\* C2: when fork_join's wait reaped its child and the child's unit of work
\* had returned c with 0 <= c <= 255, fork_join returns Ok(c).
C2_ExitCodeRoundTrip ==
    (last.op = "fork_join" /\ last.end.how = "returned" /\ last.end.v \in 0..255)
        => last.res = OkVal("fork_join", last.end.v)

C2_Witness ==
    /\ last.op = "fork_join" /\ last.end = End("returned", 42)
    /\ last.res = OkVal("fork_join", 42)

\* C3: when fork_join returns and a signal s had ended its child, it returns
\* Ok(128 + s): not Err, not a plain exit code, not the fallback 1.
C3_SignalPlus128 ==
    (last.op = "fork_join" /\ last.end.how = "killed")
        => last.res = OkVal("fork_join", 128 + last.end.v)

C3_Witness ==
    /\ last.op = "fork_join" /\ last.end = End("killed", 6)
    /\ last.res = OkVal("fork_join", 134)

SpawnOps == {"fork_spawn", "fork_join"}

\* C4: after a successful fork the original process holds the Child with the
\* new PID (returned to it, or moved into fork_join's join) and runs no unit
\* of work; the new process holds no such Child, gets None from fork, and
\* under fork_spawn runs the unit of work, which no process runs twice, and
\* has terminated once the unit of work returned.
C4_ExactlyOneBranch ==
    /\ (last.op \in ForkOps /\ last.made # {}) =>
          \A g \in last.made : \E q \in ProcOf(g) :
              LET c == ChildOf(q, g) IN
              /\ pc[last.p] # "work"
              /\ IF last.op = "fork_join"
                 THEN pc[last.p] = "waitpid" /\ call[last.p].h = {c}
                 ELSE Idle(last.p) /\ last.res = OkSome(last.op, c)
                      /\ c \in handles[last.p]
              /\ c \notin handles[q] /\ call[q].h = {}
              /\ IF last.op = "fork"
                 THEN pc[q] = "idle" /\ last.resc = OkNone("fork")
                 ELSE pc[q] = "work" /\ last.resc = NoRes
    /\ \A q \in Pids :
          pc[q] = "work" =>
              /\ Running(q) /\ ptab[q].gen \in Gens /\ ptab[q].end = NoEnd
              /\ call[q].op \in SpawnOps /\ call[q].h = {}
    /\ last.op = "work_returns" => ~Running(last.p)

C4_Witness ==
    /\ last.op = "fork_spawn" /\ last.made # {} /\ last.res.child # {}
    /\ \E q \in Pids : pc[q] = "work" /\ ptab[q].ppid = last.p

\* C5 as claimed: over all processes at most one waitpid is ever issued on
\* the handle of a forked child, and no waitpid is issued on a handle after a
\* join of it has succeeded.
C5_AtMostOneWaitPerChild ==
    /\ \A g \in Gens : Cardinality(waits[g]) <= 1
    /\ \A p \in Pids : pc[p] = "waitpid" =>
          \A h \in call[p].h : h.gen \notin joined

\* C5, amended: join is single-use within a process: a Child moved into join
\* is no longer owned by the caller, and no process issues a second waitpid
\* on a handle it has already waited on.
C5_SingleUsePerProcess ==
    /\ ~rewait
    /\ \A p \in Pids : call[p].h \cap handles[p] = {}

C5_Witness ==
    /\ ~rewait
    /\ \E g \in joined : Cardinality(waits[g]) = 2
    /\ last.op = "join" /\ last.res = Err("join", "ECHILD")

\* C6: in the child arm of fork_spawn the unit of work is running right after
\* the fork; when it returns c the process has terminated, with c (its low 8
\* bits) as exit status and nothing run or returned after it; and fork_spawn
\* and fork_join return nothing to their caller in the new process.
C6_ChildExitsWithWorkValue ==
    /\ last.op = "work_returns" =>
          /\ pc[last.p] = "dead" /\ ptab[last.p].st \in {"zombie", "free"}
          /\ last.res = NoRes
          /\ ptab[last.p].st = "zombie" =>
                /\ ptab[last.p].status = ExitWord(last.end.v)
                /\ code(ptab[last.p].status) = {last.end.v % 256}
    /\ last.op \in SpawnOps => last.resc = NoRes
    /\ (last.op \in SpawnOps /\ last.made # {}) =>
          \A g \in last.made : \A q \in ProcOf(g) : pc[q] = "work"

C6_Witness ==
    /\ last.op = "work_returns" /\ last.end = End("returned", 42)
    /\ ptab[last.p].st = "zombie" /\ ptab[last.p].status = ExitWord(42)

\* The system calls of a call of fork (alone or inside fork_spawn and
\* fork_join): unshare first and once; fork(2) second and once, exactly when
\* unshare succeeded.
GuardThenFork(s) ==
    /\ Len(s) >= 1 /\ s[1].call = "unshare"
    /\ \A i \in 2..Len(s) : s[i].call # "unshare"
    /\ s[1].r # 0 => Len(s) = 1
    /\ s[1].r = 0 => /\ Len(s) >= 2 /\ s[2].call = "fork"
                     /\ \A i \in 3..Len(s) : s[i].call # "fork"

\* C7: every call of fork issues unshare first and fork(2) second: fork(2)
\* never before the guard succeeded, once when it did, never when it failed,
\* and neither call a second time; a process is created only by that fork(2).
C7_GuardThenForkOnce ==
    /\ last.op \in ForkOps => GuardThenFork(last.sys)
    /\ \A p \in Pids : call[p].op \in ForkOps => GuardThenFork(call[p].sys)
    /\ (last.op \in ForkOps /\ last.made # {}) =>
          /\ last.sys[1] = Sys("unshare", 0)
          /\ \E q \in Pids : last.sys[2] = Sys("fork", q) /\ ptab[q].gen \in last.made

C7_Witness ==
    /\ last.op = "fork" /\ last.made # {} /\ Len(last.sys) = 2
    /\ last.sys[1] = Sys("unshare", 0) /\ last.sys[2].call = "fork"

\* C8: when the guard succeeded and fork(2) failed, fork, fork_spawn and
\* fork_join return Err: no Child, no new process, no unit of work, no
\* waitpid, no second fork(2), no exit code in place of the error.
C8_ForkFailureSurfaced ==
    (last.op \in ForkOps /\ Len(last.sys) >= 2 /\ last.sys[2] = Sys("fork", -1))
        => /\ last.res = Err(last.op, "EAGAIN")
           /\ last.made = {} /\ last.resc = NoRes
           /\ Len(last.sys) = 2
           /\ Idle(last.p) /\ call[last.p] = NoCall
           /\ \A c \in handles[last.p] : c.gen <= nforks /\ c.pid \in Pids

C8_Witness ==
    /\ last.op = "fork_join"
    /\ last.sys = <<Sys("unshare", 0), Sys("fork", -1)>>
    /\ last.res = Err("fork_join", "EAGAIN")

\* C9: when waitpid fails, join returns Err and fork_join returns that Err
\* and no exit code; it fails with ECHILD whenever the PID of the handle is
\* no un-reaped child of the caller; Ok is returned only for a waitpid that
\* succeeded on the PID of the handle.
C9_WaitFailureIsErr ==
    (last.op \in {"join", "fork_join"} /\ last.kid # "") =>
        LET w == last.sys[Len(last.sys)] IN
        /\ w.call = "waitpid"
        /\ w.r < 0 => last.res.kind = "Err" /\ last.res.val = {}
        /\ last.kid = "none" => last.res = Err(last.op, "ECHILD")
        /\ last.res.kind = "Ok" => w.r \in {h.pid : h \in last.h}

C9_Witness ==
    /\ last.op = "join" /\ last.kid = "none"
    /\ last.res = Err("join", "ECHILD")

\* C10: join and fork_join return Ok only when the process with the PID of
\* the handle had terminated (was a zombie of the caller) and it is that
\* process they reaped.
C10_JoinAfterTermination ==
    (last.op \in {"join", "fork_join"} /\ last.res.kind = "Ok") =>
        /\ last.kid = "zombie" /\ last.end # NoEnd
        /\ last.reaped # {}
        /\ \A h \in last.h : last.sys[Len(last.sys)] = Sys("waitpid", h.pid)

C10_Witness ==
    /\ last.op = "join" /\ last.res.kind = "Ok"
    /\ last.kid = "zombie" /\ last.end.how = "killed"

\* ------------------------------------------------------------ fair schedule
\* waitpid returns in p because the PID waited on is a terminated child of p
\* or no child of p at all, not because a signal handler interrupted it.
Reap(p) == WaitReturn(p) /\ last'.res.err # "EINTR"

\* The kernel wakes a process blocked in waitpid once it has something to
\* report; nothing makes a unit of work end or a signal arrive.
FairSpec == Spec /\ \A p \in Pids : WF_vars(Reap(p))

\* p is blocked in the waitpid of join or fork_join on the handle of a child
\* of its own.
JoiningChild(p) ==
    pc[p] = "waitpid" /\ \A h \in call[p].h : IsChild(p, h.pid)
\* ... and that child has terminated, resp. is still running.
JoiningEnded(p) ==
    JoiningChild(p) /\ \A h \in call[p].h : ptab[h.pid].st = "zombie"

\* C11, first half: under the fair schedule a join (or fork_join) whose child
\* has terminated eventually returns.
C11_JoinEventuallyReturns ==
    \A p \in Pids : JoiningEnded(p) ~> (pc[p] = "idle")

\* C11 as claimed, second half: join and fork_join return to their caller
\* only once the child has terminated: while the child of the handle runs
\* they return nothing, neither Ok nor Err.
C11_NoReturnWhileChildRuns ==
    (last.op \in {"join", "fork_join"} /\ last.kid # "") => last.kid # "run"

\* The Child values a process has: those its code owns and the one its join
\* in progress consumed.
Held(p) == IF Running(p) THEN handles[p] \cup call[p].h ELSE {}
\* Forks are numbered in the order they happen, so the process that made the
\* Child of fork h.gen has a smaller number than h.gen, and a process that
\* got a copy of it, being forked later, a larger one.
Owner(p, h) == h \in Held(p) /\ ptab[p].gen < h.gen
Copy(p, h) == h \in Held(p) /\ ptab[p].gen > h.gen
Holders(g) == {p \in Pids : \E h \in Held(p) : h.gen = g}
\* p has issued waits only through Child values its own forks made.
OwnWaitsOnly(p) == \A g \in Gens : ptab[p].gen \in waits[g] => ptab[p].gen < g

ExactlyOne(exit) == Cardinality(code(exit)) + Cardinality(signal(exit)) = 1

\* C13: every status a blocking wait can obtain (that of a terminated,
\* un-reaped process) and every ExitStatus a join returns in Ok has exactly
\* one of code() and signal() defined; so fork_join never falls back to 1:
\* its Ok value is the exit code of the child, or 128 + the signal that
\* ended it.
C13_CodeXorSignal ==
    /\ \A q \in Pids : ptab[q].st = "zombie" => ExactlyOne(ptab[q].status)
    /\ (last.op = "join" /\ last.res.kind = "Ok") =>
          /\ last.res.val # {}
          /\ \A exit \in last.res.val : ExactlyOne(exit)
    /\ (last.op = "fork_join" /\ last.res.kind = "Ok") =>
          /\ last.res.val # {1}
          /\ last.res.val \in
                CASE last.end.how = "returned" -> {{last.end.v % 256}}
                  [] last.end.how = "killed" -> {{128 + last.end.v}}
                  [] OTHER -> {{101}, {0}}

C13_Witness ==
    /\ last.op = "join" /\ last.res.kind = "Ok" /\ last.end.how = "killed"
    /\ \E exit \in last.res.val : code(exit) = {} /\ signal(exit) = {9}

GuardOps == {"ensure_single_threaded", "is_single_threaded"}

\* C14: what a call of ensure_single_threaded, is_single_threaded, fork,
\* fork_spawn or fork_join does about the guard is a function of the number
\* of live threads of the caller at that call, whatever earlier calls of the
\* process returned: with one thread unshare returns 0, the guard passes and
\* fork(2) is issued; with more, unshare fails, the guard fails and the call
\* returns Err(EINVAL) (is_single_threaded: false).
C14_GuardReadsThreadCount ==
    (last.op \in GuardOps \cup ForkOps) =>
        /\ Len(last.sys) >= 1
        /\ last.sys[1] = Sys("unshare", IF last.threads = 1 THEN 0 ELSE -1)
        /\ last.op = "ensure_single_threaded" =>
              last.res = IF last.threads = 1 THEN OkUnit(last.op)
                         ELSE Err(last.op, "EINVAL")
        /\ last.op = "is_single_threaded" =>
              last.res = Bool(last.op, last.threads = 1)
        /\ last.op \in ForkOps =>
              /\ last.threads = 1 <=> (Len(last.sys) >= 2 /\ last.sys[2].call = "fork")
              /\ last.threads > 1 <=> last.res = Err(last.op, "EINVAL")

\* A process that owns a Child passed the guard when it forked that child;
\* with a second thread started since, its next fork fails.
C14_Witness ==
    /\ last.op = "fork" /\ last.threads > 1
    /\ last.res = Err("fork", "EINVAL")
    /\ \E h \in handles[last.p] : Owner(last.p, h)

\* C15: a call of ensure_single_threaded or is_single_threaded changes
\* nothing but its own return value: the process table (the children of
\* every process), the thread counts, the handles, the calls in progress
\* and where every process is stay as they were, so what unshare and fork(2)
\* can return to a fork that follows is what they could return before; and
\* in a process with one thread the call succeeds, so the next one does too.
C15_GuardCallsAreNoOps ==
    [][\A p \in Pids :
          (last'.op \in GuardOps /\ last'.p = p) =>
              /\ UNCHANGED <<ptab, threads, pc, handles, call, nforks, waits,
                             rewait, joined>>
              /\ unshare(p)' = unshare(p)
              /\ ForkOutcomes' = ForkOutcomes
              /\ threads[p] = 1 =>
                    /\ last'.res \in {OkUnit(last'.op), Bool(last'.op, TRUE)}
                    /\ unshare(p)' = 0
      ]_vars

C15_Witness ==
    /\ last.op = "is_single_threaded" /\ last.threads = 1
    /\ last.res = Bool("is_single_threaded", TRUE)
    /\ handles[last.p] # {}
    /\ \E q \in Pids : IsChild(last.p, q)

\* C16: when the unit of work of fork_join's child returned c, fork_join
\* returns Ok(c mod 256), the low 8 bits of c: a value in 0..255 that is c
\* exactly when c is in 0..255; and whenever the child ended by an exit, the
\* value of fork_join lies in 0..255.
C16_LowEightBits ==
    /\ (last.op = "fork_join" /\ last.end.how = "returned") =>
          /\ last.res = OkVal("fork_join", last.end.v % 256)
          /\ last.res.val = {last.end.v} <=> last.end.v \in 0..255
    /\ (last.op = "fork_join" /\ last.res.kind = "Ok" /\ last.end.how # "killed")
          => last.res.val # {} /\ last.res.val \subseteq 0..255

C16_Witness ==
    /\ last.op = "fork_join" /\ last.end = End("returned", -1)
    /\ last.res = OkVal("fork_join", 255)

\* C17 as claimed: a process created by fork_spawn or fork_join never runs
\* its caller's code again, however its unit of work ends: once the unit of
\* work has panicked the process has terminated, no panic travels through
\* the frames of the caller, no caller catches one and runs on, and nothing
\* is returned to the caller in the new process.
C17_ChildNeverResumesCaller ==
    /\ \A q \in Pids :
          /\ ptab[q].end.how = "panicked" => ~Running(q)
          /\ pc[q] # "unwind"
    /\ last.op # "panic_caught"
    /\ last.op \in SpawnOps => last.resc = NoRes

\* C18: a terminated child leaves the process table, while its parent
\* lives, only in the step in which a join or fork_join of the parent
\* returns Ok from a waitpid on a Child with the PID of that child; the
\* calls of fork and fork_spawn issue no waitpid (dropping a Child is no
\* call at all), so a terminated child nobody joins stays a zombie; and when
\* fork_join returns Ok the process it created has been reaped.
C18_ReapedOnlyByJoin ==
    [][/\ \A q \in Pids :
             (ptab[q].st = "zombie" /\ ptab'[q] # ptab[q]) =>
                 \/ ptab'[ptab[q].ppid].st # "run"
                 \/ /\ last'.p = ptab[q].ppid
                    /\ last'.op \in {"join", "fork_join"}
                    /\ last'.res.kind = "Ok"
                    /\ last'.sys[Len(last'.sys)] = Sys("waitpid", q)
                    /\ \A h \in last'.h : h.pid = q
                    /\ last'.reaped = {ptab[q].gen}
       /\ last'.op \in {"fork", "fork_spawn"} =>
             \A i \in DOMAIN last'.sys : last'.sys[i].call # "waitpid"
       /\ (last'.op = "fork_join" /\ last'.res.kind = "Ok") =>
             \A h \in last'.h :
                 /\ last'.sys[2] = Sys("fork", h.pid)
                 /\ last'.reaped = {h.gen}
                 /\ ptab[h.pid].gen = h.gen /\ ptab[h.pid].st = "zombie"
                 /\ ptab'[h.pid] = FreeSlot
      ]_vars

\* A terminated child whose parent runs on without a Child for it and on
\* whose Child no wait was ever issued: the Child was dropped.
C18_Witness ==
    \E q \in Pids :
        /\ ptab[q].st = "zombie" /\ ptab[q].gen \in Gens
        /\ waits[ptab[q].gen] = {}
        /\ Idle(ptab[q].ppid)
        /\ \A h \in Held(ptab[q].ppid) : h.pid # q
====
